---- MODULE Spec2Model ----
(***************************************************************************)
(* A model of the classification core of ivanvanderbyl/eval:               *)
(* pkg/llm/llm.go (buildClassificationTools, parseResponse,                *)
(* Classifier.Classify) driven through a Generator whose outcome is fixed  *)
(* at construction, as the MockClient of the package's tests is.           *)
(*                                                                         *)
(* Strings whose characters the code inspects (labels, rationales) are     *)
(* sequences of one-character strings; strings the code only compares or   *)
(* concatenates (names, prompts, messages) are TLA+ strings.  A float64    *)
(* score is an integer number of hundredths.                               *)
(***************************************************************************)
EXTENDS Integers, Sequences, FiniteSets, TLC

VARIABLES
    classifier,     \* the Classifier: [client, name]; client is the Generator
    callerCtx,      \* the context the caller hands to Classify
    args,           \* arguments of the latest Classify call
    ret,            \* what the latest Classify call returned
    sent,           \* the requests Generate received during the latest call
    prevChoices,    \* the enum Generate received in the call before it
    classifyCalls,  \* number of Classify calls made so far
    generateCalls,  \* number of Generate invocations the client has seen
    goroutines,     \* the concurrent Classify calls: where each is, its
                    \* arguments and locals, and what it returned
    provider,       \* a provider: [kind, model]
    mock,           \* the MockProvider's functions and its two logs of calls
    outbound,       \* the calls the latest provider operation made to what
                    \* lies under the provider (SDK client, mock function)
    pcall,          \* the latest provider operation and its arguments
    pret,           \* what the latest provider operation returned
    providerCalls,  \* number of provider operations made so far
    templates,      \* the Manager's map from name to ModelGradedSpec
    ragasTemplates, \* the RagasManager's map from name to RagasTemplateSpec
    loaded,         \* the latest load: its name, its content and its error
    loads,          \* number of loads made so far
    factory,        \* the ProviderFactory: [openAIKey, geminiKey, modelSpecs]
    created,        \* the latest CreateProvider: its argument and its result
    batch,          \* an evaluation run: its input items, its template
                    \* manager and its use-cot flag
    pos,            \* the index of the item the run's loop visits next
    results,        \* the run's slice of scores
    evaluated,      \* per item visited: the template lookup, the provider's
                    \* answer, the Classify calls made and what they returned
    finished,       \* how the run ended: its error and the results it wrote
    scorer,         \* the JSONScorer: its three flags and its precision
    scoreArgs,      \* the output and the expected value handed to Score
    scored          \* the latest Score call: the scorer as it was, the
                    \* result and the error

classifierVars ==
    <<classifier, callerCtx, args, ret, sent, prevChoices, classifyCalls,
      generateCalls>>
goroutineVars == <<goroutines>>
providerVars == <<provider, mock, outbound, pcall, pret, providerCalls>>
templateVars == <<templates, ragasTemplates, loaded, loads>>
factoryVars == <<factory, created>>
batchVars == <<batch, pos, results, evaluated, finished>>
scorerVars == <<scorer, scoreArgs, scored>>

vars ==
    <<classifierVars, goroutineVars, providerVars, templateVars, factoryVars,
      batchVars, scorerVars>>

---------------------------------------------------------------------------
(* Bounds and input sets *)

MaxCalls == 2
MaxToolCalls == 2
NumGoroutines == 2
MaxProviderCalls == 3
MaxMessages == 1
MaxLoads == 2
MaxSpecLen == 3
MaxItems == 2

Empty == [k \in {} |-> 0]

\* (the source's back quotes are written as apostrophes)
NoCOTSuffix == "Answer the question by calling 'select_choice' with a single choice from {{.Choices}}."
COTSuffix == "Answer the question by calling 'select_choice' with your reasoning in a step-by-step manner to be sure that your conclusion is correct. Avoid simply stating the correct answer at the outset. Select a single choice by setting the 'choice' parameter to a single choice from {{.Choices}}."

Whitespace == {" ", "\t"}

\* keys a label-score map may have, and the scores (hundredths)
Labels == {<<"A">>, <<>>}
Scores == {0, 100}
ChoiceScoreMaps == UNION {[K -> Scores] : K \in SUBSET Labels}
Prompts == {"", "Test prompt"}
Names == {"test"}

\* the orders in which a range over a Go map can visit its keys
KeyOrders(m) ==
    {o \in [1..Cardinality(DOMAIN m) -> DOMAIN m] :
        \A i, j \in DOMAIN o : o[i] = o[j] => i = j}

---------------------------------------------------------------------------
(* JSON values and the arguments payload of a tool call *)

JString(s) == [t |-> "string", s |-> s]
JNumber(s) == [t |-> "number", s |-> s]

ChoiceValues ==
    {JString(<<"A">>), JString(<<" ", "A", "\t">>), JString(<<"D">>),
     JString(<<>>), JNumber(<<"4">>)}
ReasonValues == {JString(<<" ", "r", " ">>)}

ObjectMembers ==
    {c @@ r : c \in {Empty} \cup {("choice" :> v) : v \in ChoiceValues},
              r \in {Empty} \cup {("reasons" :> v) : v \in ReasonValues}}

\* Arguments: text that is not JSON, the JSON null, a JSON array, or an object
ArgumentPayloads ==
    {[kind |-> k, members |-> Empty] : k \in {"invalid", "null", "array"}}
    \cup {[kind |-> "object", members |-> m] : m \in ObjectMembers}

ToolCallOf(name, arguments) ==
    [Function |-> [Name |-> name, Arguments |-> arguments]]

ValidA == [kind |-> "object", members |-> ("choice" :> JString(<<"A">>))]
ValidEmpty == [kind |-> "object", members |-> ("choice" :> JString(<<>>))]

FirstToolCalls ==
    {ToolCallOf("select_choice", a) : a \in ArgumentPayloads}
    \cup {ToolCallOf("other_tool", ValidA)}
LaterToolCalls == {ToolCallOf("select_choice", ValidEmpty)}

RECURSIVE LaterLists(_)
LaterLists(n) ==
    IF n = 0 THEN {<<>>}
    ELSE LaterLists(n - 1)
         \cup {Append(l, t) : l \in {x \in LaterLists(n - 1) : Len(x) = n - 1},
                              t \in LaterToolCalls}

ToolCallLists ==
    {<<>>} \cup {<<f>> \o l : f \in FirstToolCalls, l \in LaterLists(MaxToolCalls - 1)}

ChoiceOf(content, toolCalls) ==
    [Message |-> [Role |-> "assistant", Content |-> content],
     ToolCalls |-> toolCalls]

Contents == {"", "A"}

Responses ==
    {[Choices |-> <<>>]}
    \cup {[Choices |-> <<ChoiceOf(c, l)>>] : c \in Contents, l \in ToolCallLists}

---------------------------------------------------------------------------
(* Errors: the chain of messages fmt.Errorf builds with %w, outermost first *)

NoErr == [msgs |-> <<>>, choice |-> <<>>]
Errorf(msg) == [msgs |-> <<msg>>, choice |-> <<>>]
Wrap(msg, err) == [err EXCEPT !.msgs = <<msg>> \o @]

GenerateErrors ==
    {Errorf("provider failure"), Errorf("context canceled"),
     Errorf("context deadline exceeded")}

\* A Generator returns a non-nil response or an error
Clients ==
    {[response |-> r, err |-> NoErr] : r \in Responses}
    \cup {[response |-> [Choices |-> <<>>], err |-> e] : e \in GenerateErrors}

---------------------------------------------------------------------------
(* strings.TrimSpace, as parseResponse applies it to the label *)

RECURSIVE TrimLeft(_)
TrimLeft(s) ==
    IF s # <<>> /\ Head(s) \in Whitespace THEN TrimLeft(Tail(s)) ELSE s

RECURSIVE TrimRight(_)
TrimRight(s) ==
    IF s # <<>> /\ s[Len(s)] \in Whitespace
    THEN TrimRight(SubSeq(s, 1, Len(s) - 1))
    ELSE s

TrimSpaceNone(s) == s

TrimSpace(s) == TrimRight(TrimLeft(s))

\* faulty variant: JSON of any kind is taken, what is no object as no fields
UnmarshalAnyJSON(arguments) ==
    CASE arguments.kind = "object" -> [err |-> NoErr, args |-> arguments.members]
      [] arguments.kind \in {"null", "array"} -> [err |-> NoErr, args |-> Empty]
      [] OTHER -> [err |-> Errorf("json: invalid character"), args |-> Empty]

\* json.Unmarshal of the arguments into a map[string]interface{}: text that
\* is not JSON and JSON that is not an object fail, null leaves the map nil
Unmarshal(arguments) ==
    CASE arguments.kind = "object" -> [err |-> NoErr, args |-> arguments.members]
      [] arguments.kind = "null"   -> [err |-> NoErr, args |-> Empty]
      [] arguments.kind = "array"  ->
            [err |-> Errorf("json: cannot unmarshal array"), args |-> Empty]
      [] OTHER -> [err |-> Errorf("json: invalid character"), args |-> Empty]

---------------------------------------------------------------------------
(* buildClassificationTools *)

ChoiceProperty(choices) ==
    [type |-> "string", title |-> "Choice", description |-> "The choice",
     enum |-> choices]

ReasonsProperty ==
    [type |-> "string", title |-> "Reasoning",
     description |-> "Write out in a step by step manner your reasoning to be sure that your conclusion is correct. Avoid simply stating the correct answer at the outset."]

ToolOf(schema) ==
    [Type |-> "function",
     Function |-> [Name |-> "select_choice",
                   Description |-> "Call this function to select a choice.",
                   Parameters |-> schema]]

\* faulty variants: the enum loses its first label; the reasons field is always there
buildClassificationToolsDropsLabel(useCOT, choices) ==
    LET kept == SubSeq(choices, 2, Len(choices))
    IN  IF useCOT
        THEN <<ToolOf([type |-> "object", title |-> "CoTResponse",
                       properties |-> ("reasons" :> ReasonsProperty)
                                      @@ ("choice" :> ChoiceProperty(kept)),
                       required |-> <<"reasons", "choice">>])>>
        ELSE <<ToolOf([type |-> "object", title |-> "FunctionResponse",
                       properties |-> ("choice" :> ChoiceProperty(kept)),
                       required |-> <<"choice">>])>>

buildClassificationToolsAlwaysCOT(useCOT, choices) ==
    <<ToolOf([type |-> "object", title |-> "CoTResponse",
              properties |-> ("reasons" :> ReasonsProperty)
                             @@ ("choice" :> ChoiceProperty(choices)),
              required |-> <<"reasons", "choice">>])>>

\* Parameters holds the schema itself: json.Marshal writes the keys of a map
\* in sorted order, so the bytes are a one-to-one image of the value
buildClassificationTools(useCOT, choices) ==
    LET schema ==
            IF useCOT
            THEN [type |-> "object", title |-> "CoTResponse",
                  properties |-> ("reasons" :> ReasonsProperty)
                                 @@ ("choice" :> ChoiceProperty(choices)),
                  required |-> <<"reasons", "choice">>]
            ELSE [type |-> "object", title |-> "FunctionResponse",
                  properties |-> ("choice" :> ChoiceProperty(choices)),
                  required |-> <<"choice">>]
    IN  <<ToolOf(schema)>>

---------------------------------------------------------------------------
(* parseResponse *)

ZeroScore == [Name |-> "", Score |-> 0, Metadata |-> Empty]

Failed(err) == [score |-> ZeroScore, err |-> err]

\* faulty variant: the rationale is trimmed
rationaleOfTrimmed(a) ==
    IF "reasons" \in DOMAIN a
    THEN ("rationale" :> JString(TrimSpace(a["reasons"].s)))
    ELSE Empty

\* metadata after the copy of the reasons argument
rationaleOf(a) ==
    IF "reasons" \in DOMAIN a THEN ("rationale" :> a["reasons"]) ELSE Empty

\* faulty variant: an unknown label scores zero
scoreOfDefault(choiceScores, choice, metadata) ==
    [score |-> [Name |-> "",
                Score |-> IF choice \in DOMAIN choiceScores
                          THEN choiceScores[choice] ELSE 0,
                Metadata |-> metadata],
     err |-> NoErr]

\* the lookup of the trimmed label in the map
scoreOf(choiceScores, choice, metadata) ==
    IF choice \notin DOMAIN choiceScores
    THEN Failed([msgs |-> <<"unknown score choice">>, choice |-> choice])
    ELSE [score |-> [Name |-> "", Score |-> choiceScores[choice],
                     Metadata |-> metadata],
          err |-> NoErr]

\* faulty variant: a choice that is missing or no string counts as the
\* empty label
parseToolCallEmptyChoice(toolCall, choiceScores) ==
    IF toolCall.Function.Name # "select_choice"
    THEN Failed(Errorf("unexpected tool call"))
    ELSE LET u == Unmarshal(toolCall.Function.Arguments)
             a == u.args
         IN  IF u.err # NoErr
             THEN Failed(Wrap("failed to parse arguments", u.err))
             ELSE LET choice ==
                        IF "choice" \in DOMAIN a /\ a["choice"].t = "string"
                        THEN TrimSpace(a["choice"].s) ELSE <<>>
                  IN  scoreOf(choiceScores, choice,
                              ("choice" :> JString(choice)) @@ rationaleOf(a))

\* parseResponse from the first tool call on
parseToolCall(toolCall, choiceScores) ==
    IF toolCall.Function.Name # "select_choice"
    THEN Failed(Errorf("unexpected tool call"))
    ELSE LET u == Unmarshal(toolCall.Function.Arguments)
             a == u.args
         IN  IF u.err # NoErr
             THEN Failed(Wrap("failed to parse arguments", u.err))
             ELSE IF ~("choice" \in DOMAIN a /\ a["choice"].t = "string")
                  THEN Failed(Errorf("choice not found in response"))
                  ELSE LET choice == TrimSpace(a["choice"].s)
                       IN  scoreOf(choiceScores, choice,
                                   ("choice" :> JString(choice)) @@ rationaleOf(a))

\* faulty variants: the last tool call is the one parsed; without a tool
\* call, the free text is taken as the label
parseResponseLast(resp, choiceScores) ==
    IF Len(resp.ToolCalls) = 0
    THEN Failed(Errorf("no tool calls in response"))
    ELSE parseToolCall(resp.ToolCalls[Len(resp.ToolCalls)], choiceScores)

parseResponseFallback(resp, choiceScores) ==
    IF Len(resp.ToolCalls) = 0
    THEN IF resp.Message.Content = "A"
         THEN scoreOf(choiceScores, <<"A">>, ("choice" :> JString(<<"A">>)))
         ELSE Failed(Errorf("no tool calls in response"))
    ELSE parseToolCall(resp.ToolCalls[1], choiceScores)

parseResponse(resp, choiceScores) ==
    IF Len(resp.ToolCalls) = 0
    THEN Failed(Errorf("no tool calls in response"))
    ELSE parseToolCall(resp.ToolCalls[1], choiceScores)

---------------------------------------------------------------------------
(* The Generator of the tests, and Classifier.Classify *)

Generate(m) ==
    IF m.err # NoErr
    THEN [response |-> [Choices |-> <<>>], err |-> m.err]
    ELSE [response |-> m.response, err |-> NoErr]

NilScore(err) == [nil |-> TRUE, score |-> ZeroScore, err |-> err]

\* Classify up to the call of Generate: the message and the tools
\* faulty variants: the suffixes are swapped; the context is replaced
ClassifyRequestSwapped(ctx, prompt, useCOT, choices) ==
    [ctx |-> ctx,
     messages |-> <<[Role |-> "user",
                     Content |-> prompt \o "\n"
                                 \o (IF useCOT THEN NoCOTSuffix ELSE COTSuffix)]>>,
     tools |-> buildClassificationTools(useCOT, choices)]

ClassifyRequestBackground(ctx, prompt, useCOT, choices) ==
    [ctx |-> "background",
     messages |-> <<[Role |-> "user",
                     Content |-> prompt \o "\n"
                                 \o (IF useCOT THEN COTSuffix ELSE NoCOTSuffix)]>>,
     tools |-> buildClassificationTools(useCOT, choices)]

ClassifyRequest(ctx, prompt, useCOT, choices) ==
    LET suffix == IF useCOT THEN COTSuffix ELSE NoCOTSuffix
        messages == <<[Role |-> "user", Content |-> prompt \o "\n" \o suffix]>>
        tools == buildClassificationTools(useCOT, choices)
    IN  [ctx |-> ctx, messages |-> messages, tools |-> tools]

\* Classify from the return of Generate on
\* faulty variants: the cause of a failed generation is dropped; the name is
\* not set; a response without choices is parsed as a choice without tool calls
ClassifyResultParsesNoChoice(c, g, choiceScores) ==
    IF g.err # NoErr
    THEN NilScore(Wrap("failed to complete", g.err))
    ELSE LET first == IF Len(g.response.Choices) = 0
                      THEN ChoiceOf("", <<>>) ELSE g.response.Choices[1]
             p == parseResponse(first, choiceScores)
         IN  IF p.err # NoErr
             THEN NilScore(Wrap("failed to parse response", p.err))
             ELSE [nil |-> FALSE,
                   score |-> [p.score EXCEPT !.Name = c.name],
                   err |-> NoErr]

ClassifyResultNoCause(c, g, choiceScores) ==
    IF g.err # NoErr
    THEN NilScore(Errorf("failed to complete"))
    ELSE IF Len(g.response.Choices) = 0
         THEN NilScore(Errorf("empty response from model"))
         ELSE LET p == parseResponse(g.response.Choices[1], choiceScores)
              IN  IF p.err # NoErr
                  THEN NilScore(Wrap("failed to parse response", p.err))
                  ELSE [nil |-> FALSE,
                        score |-> [p.score EXCEPT !.Name = c.name],
                        err |-> NoErr]

ClassifyResultNoName(c, g, choiceScores) ==
    IF g.err # NoErr
    THEN NilScore(Wrap("failed to complete", g.err))
    ELSE IF Len(g.response.Choices) = 0
         THEN NilScore(Errorf("empty response from model"))
         ELSE LET p == parseResponse(g.response.Choices[1], choiceScores)
              IN  IF p.err # NoErr
                  THEN NilScore(Wrap("failed to parse response", p.err))
                  ELSE [nil |-> FALSE, score |-> p.score, err |-> NoErr]

ClassifyResult(c, g, choiceScores) ==
    IF g.err # NoErr
    THEN NilScore(Wrap("failed to complete", g.err))
    ELSE IF Len(g.response.Choices) = 0
         THEN NilScore(Errorf("empty response from model"))
         ELSE LET p == parseResponse(g.response.Choices[1], choiceScores)
              IN  IF p.err # NoErr
                  THEN NilScore(Wrap("failed to parse response", p.err))
                  ELSE [nil |-> FALSE,
                        score |-> [p.score EXCEPT !.Name = c.name],
                        err |-> NoErr]

\* faulty variants: a failed call is repeated once; a failed parse still hands
\* back the score it got to
ClassifyRetry(c, ctx, prompt, choiceScores, useCOT, choices) ==
    LET request == ClassifyRequest(ctx, prompt, useCOT, choices)
        out == ClassifyResult(c, Generate(c.client), choiceScores)
    IN  [sent |-> IF out.nil THEN <<request, request>> ELSE <<request>>,
         ret |-> out]

ClassifyBestEffort(c, ctx, prompt, choiceScores, useCOT, choices) ==
    LET g == Generate(c.client)
        p == parseResponse(g.response.Choices[1], choiceScores)
    IN  [sent |-> <<ClassifyRequest(ctx, prompt, useCOT, choices)>>,
         ret |-> IF g.err # NoErr
                 THEN NilScore(Wrap("failed to complete", g.err))
                 ELSE IF Len(g.response.Choices) = 0
                      THEN NilScore(Errorf("empty response from model"))
                      ELSE [nil |-> FALSE,
                            score |-> [p.score EXCEPT !.Name = c.name],
                            err |-> IF p.err # NoErr
                                    THEN Wrap("failed to parse response", p.err)
                                    ELSE NoErr]]

\* choices is the order in which the range over choiceScores visited the keys;
\* sent lists the requests handed to the client's Generate
Classify(c, ctx, prompt, choiceScores, useCOT, choices) ==
    [sent |-> <<ClassifyRequest(ctx, prompt, useCOT, choices)>>,
     ret |-> ClassifyResult(c, Generate(c.client), choiceScores)]

---------------------------------------------------------------------------
(* The state machine: a Classifier is built over a client, then called *)

\* the tests construct every Classifier without options
NewClassifier(client, name) == [client |-> client, name |-> name, opts |-> <<>>]

Contexts == {"background", "canceled"}

\* the classifier before its first call
ClassifierInit(clients, ctxs) ==
    /\ classifier \in {NewClassifier(c, n) : c \in clients, n \in Names}
    /\ callerCtx \in ctxs
    /\ args = [prompt |-> "", choiceScores |-> Empty, useCOT |-> FALSE]
    /\ ret = NilScore(NoErr)
    /\ sent = <<>>
    /\ prevChoices = <<>>
    /\ classifyCalls = 0
    /\ generateCalls = 0

---------------------------------------------------------------------------
(* The providers: GeminiProvider, OpenAIProvider and MockProvider.  What   *)
(* a provider operation returns on success is kept as a token; the calls   *)
(* it makes to the client under it are kept in full                        *)

ModelTypeText == 1
ModelTypeEmbedding == 2
ModelTypeBoth == 3

\* t & bit, for a bit of ModelType
BitAnd(t, bit) == IF (t \div bit) % 2 = 1 THEN bit ELSE 0

ModelTypes == {0, ModelTypeText, ModelTypeEmbedding, ModelTypeBoth}
Models == {[Name |-> "m", MaxTokens |-> 4096, Type |-> t] : t \in ModelTypes}
ProviderKinds == {"Gemini", "OpenAI", "Mock"}
Providers == {[kind |-> k, model |-> m] : k \in ProviderKinds, m \in Models}

\* an option the caller gave or did not give (a nil pointer, an option
\* function absent from opts)
Unset == [set |-> FALSE, value |-> 0]
Some(v) == [set |-> TRUE, value |-> v]
\* temperatures in hundredths
Temperatures == {Unset, Some(50)}
MaxTokenses == {Unset, Some(100)}
Options == {[Temperature |-> t, MaxTokens |-> n] :
                t \in Temperatures, n \in MaxTokenses}
NoOptions == [Temperature |-> Unset, MaxTokens |-> Unset]

UserMessage == [Role |-> "user", Content |-> "hi"]
Conversations ==
    UNION {[1..n -> {UserMessage}] : n \in 0..MaxMessages}
Texts == {"", "hi"}

\* what the client under the provider answers
SDKOutcomes == {"ok", "empty", "error"}

Returns(value) == [value |-> value, err |-> NoErr]
Fails(err) == [value |-> "", err |-> err]

RECURSIVE PromptOf(_)
PromptOf(messages) ==
    IF messages = <<>>
    THEN ""
    ELSE messages[1].Role \o ": " \o messages[1].Content \o "\n"
            \o PromptOf(Tail(messages))

GeminiGenerate(g, messages, opts, sdk) ==
    IF BitAnd(g.model.Type, ModelTypeText) = 0
    THEN [ret |-> Fails(Errorf("model does not support text generation")),
          outbound |-> <<>>]
    ELSE IF Len(messages) = 0
    THEN [ret |-> Fails(Errorf("no messages provided")), outbound |-> <<>>]
    ELSE LET options == [Temperature |-> opts.Temperature.value,
                         MaxTokens |-> opts.MaxTokens.value]
             request ==
                [api |-> "GenerateContent", model |-> g.model.Name,
                 temperature |-> Some(options.Temperature),
                 maxTokens |-> IF options.MaxTokens # 0
                               THEN Some(options.MaxTokens)
                               ELSE Some(g.model.MaxTokens),
                 input |-> PromptOf(messages)]
         IN  [ret |-> CASE sdk = "error" ->
                            Fails(Wrap("failed to generate content",
                                       Errorf("provider failure")))
                        [] sdk = "empty" -> Fails(Errorf("no content generated"))
                        [] OTHER -> Returns("response"),
              outbound |-> <<request>>]

GeminiEmbedding(g, text, sdk) ==
    IF BitAnd(g.model.Type, ModelTypeEmbedding) = 0
    THEN [ret |-> Fails(Errorf("model does not support embeddings")),
          outbound |-> <<>>]
    ELSE IF text = ""
    THEN [ret |-> Fails(Errorf("empty text provided")), outbound |-> <<>>]
    ELSE [ret |-> CASE sdk = "error" ->
                        Fails(Wrap("failed to create embedding",
                                   Errorf("provider failure")))
                    [] sdk = "empty" -> Fails(Errorf("no embedding values returned"))
                    [] OTHER -> Returns("embedding"),
          outbound |-> <<[api |-> "EmbedContent", model |-> g.model.Name,
                          input |-> text]>>]

OpenAIComplete(o, messages, opts, sdk) ==
    IF BitAnd(o.model.Type, ModelTypeText) = 0
    THEN [ret |-> Fails(Errorf("model does not support text generation")),
          outbound |-> <<>>]
    ELSE LET request ==
                [api |-> "CreateChatCompletion", model |-> o.model.Name,
                 temperature |-> opts.Temperature,
                 maxTokens |-> opts.MaxTokens,
                 input |-> messages]
         IN  [ret |-> IF sdk = "error"
                      THEN Fails(Wrap("failed to create chat completion",
                                      Errorf("provider failure")))
                      ELSE Returns("response"),
              outbound |-> <<request>>]

OpenAIGenerate(o, prompt, opts, sdk) ==
    IF BitAnd(o.model.Type, ModelTypeText) = 0
    THEN [ret |-> Fails(Errorf("model does not support text generation")),
          outbound |-> <<>>]
    ELSE LET options ==
                [Temperature |-> IF opts.Temperature.set
                                 THEN opts.Temperature.value ELSE 70,
                 MaxTokens |-> IF opts.MaxTokens.set
                               THEN opts.MaxTokens.value ELSE o.model.MaxTokens]
             request ==
                [api |-> "CreateCompletion", model |-> o.model.Name,
                 temperature |-> Some(options.Temperature),
                 maxTokens |-> Some(options.MaxTokens),
                 input |-> prompt]
         IN  [ret |-> CASE sdk = "error" ->
                            Fails(Wrap("failed to generate completion",
                                       Errorf("provider failure")))
                        [] sdk = "empty" ->
                            Fails(Errorf("no completion choices returned"))
                        [] OTHER -> Returns("text"),
              outbound |-> <<request>>]

OpenAIGenerateEmbedding(o, text, sdk) ==
    IF BitAnd(o.model.Type, ModelTypeEmbedding) = 0
    THEN [ret |-> Fails(Errorf("model does not support embeddings")),
          outbound |-> <<>>]
    ELSE [ret |-> CASE sdk = "error" ->
                        Fails(Wrap("failed to create embedding",
                                   Errorf("provider failure")))
                    [] sdk = "empty" -> Fails(Errorf("no embedding data returned"))
                    [] OTHER -> Returns("embedding"),
          outbound |-> <<[api |-> "CreateEmbeddings", model |-> o.model.Name,
                          input |-> text]>>]

\* the functions NewMockProvider installs
generateFunc(prompt) ==
    IF prompt = "" THEN Fails(Errorf("empty prompt"))
    ELSE Returns("Mock response to: " \o prompt)

embeddingFunc(text) ==
    IF text = "" THEN Fails(Errorf("empty text")) ELSE Returns("embedding")

\* the functions the tests install in their place
customGenerateFunc(prompt) == Returns("custom response")
customEmbeddingFunc(text) == Returns("custom embedding")

\* m.generateFunc(prompt) and m.embeddingFunc(text)
CallGenerateFunc(calls, prompt) ==
    IF calls.generateFunc = "custom"
    THEN customGenerateFunc(prompt) ELSE generateFunc(prompt)

CallEmbeddingFunc(calls, text) ==
    IF calls.embeddingFunc = "custom"
    THEN customEmbeddingFunc(text) ELSE embeddingFunc(text)

\* faulty variants: the prompt is recorded before the capability is looked
\* at; the prompt is recorded only when the function returned no error
MockGenerateRecordsFirst(m, calls, prompt) ==
    IF BitAnd(m.model.Type, ModelTypeText) = 0
    THEN [ret |-> Fails(Errorf("model does not support text generation")),
          outbound |-> <<>>,
          calls |-> [calls EXCEPT !.generateCalls = Append(@, prompt)]]
    ELSE [ret |-> CallGenerateFunc(calls, prompt),
          outbound |-> <<[api |-> "generateFunc", input |-> prompt]>>,
          calls |-> [calls EXCEPT !.generateCalls = Append(@, prompt)]]

MockGenerateRecordsSuccess(m, calls, prompt) ==
    IF BitAnd(m.model.Type, ModelTypeText) = 0
    THEN [ret |-> Fails(Errorf("model does not support text generation")),
          outbound |-> <<>>, calls |-> calls]
    ELSE [ret |-> CallGenerateFunc(calls, prompt),
          outbound |-> <<[api |-> "generateFunc", input |-> prompt]>>,
          calls |-> IF CallGenerateFunc(calls, prompt).err = NoErr
                    THEN [calls EXCEPT !.generateCalls = Append(@, prompt)]
                    ELSE calls]

MockGenerate(m, calls, prompt) ==
    IF BitAnd(m.model.Type, ModelTypeText) = 0
    THEN [ret |-> Fails(Errorf("model does not support text generation")),
          outbound |-> <<>>, calls |-> calls]
    ELSE [ret |-> CallGenerateFunc(calls, prompt),
          outbound |-> <<[api |-> "generateFunc", input |-> prompt]>>,
          calls |-> [calls EXCEPT !.generateCalls = Append(@, prompt)]]

MockGenerateEmbedding(m, calls, text) ==
    IF BitAnd(m.model.Type, ModelTypeEmbedding) = 0
    THEN [ret |-> Fails(Errorf("model does not support embeddings")),
          outbound |-> <<>>, calls |-> calls]
    ELSE [ret |-> CallEmbeddingFunc(calls, text),
          outbound |-> <<[api |-> "embeddingFunc", input |-> text]>>,
          calls |-> [calls EXCEPT !.embeddingCalls = Append(@, text)]]

SetGenerateFunc(calls, f) == [calls EXCEPT !.generateFunc = f]
SetEmbeddingFunc(calls, f) == [calls EXCEPT !.embeddingFunc = f]
GetGenerateCalls(calls) == calls.generateCalls
GetEmbeddingCalls(calls) == calls.embeddingCalls
ResetCalls(calls) ==
    [calls EXCEPT !.generateCalls = <<>>, !.embeddingCalls = <<>>]

\* the MockProvider as NewMockProvider leaves it
NoCalls ==
    [generateFunc |-> "default", embeddingFunc |-> "default",
     generateCalls |-> <<>>, embeddingCalls |-> <<>>]
NoProviderCall == [op |-> "none", input |-> <<>>, opts |-> NoOptions]

ProviderInit(providers) ==
    /\ provider \in providers
    /\ mock = NoCalls
    /\ outbound = <<>>
    /\ pcall = NoProviderCall
    /\ pret = Returns("")
    /\ providerCalls = 0

ProvidersIdle == ProviderInit({[kind |-> "Mock", model |-> m] : m \in {mm \in Models : mm.Type = ModelTypeBoth}})

---------------------------------------------------------------------------
(* The template managers.  The content of a load is a YAML document: one   *)
(* that does not decode, or a mapping with some of the keys prompt,        *)
(* choice_scores, schema and examples                                      *)

TemplateNames == {"t1", "t2"}

YAMLValues(key) ==
    CASE key = "prompt" -> {"", "p", "q"}
      [] key = "choice_scores" -> {Empty, <<"A">> :> 100}
      [] key = "schema" -> {"s"}
      [] key = "examples" -> {<<>>, <<[question |-> "q"]>>}

\* a key left out, or the key with one of its values
Member(key) == {Empty} \cup {key :> v : v \in YAMLValues(key)}

YAMLMappings ==
    {p @@ c @@ s @@ e : p \in Member("prompt"), c \in Member("choice_scores"),
                        s \in Member("schema"), e \in Member("examples")}

NotYAML == [mapping |-> FALSE, members |-> Empty]

YAMLContents ==
    {NotYAML} \cup {[mapping |-> TRUE, members |-> m] : m \in YAMLMappings}

\* the field a key decodes to: its value, or the zero value when absent
Field(content, key, zero) ==
    IF key \in DOMAIN content.members THEN content.members[key] ELSE zero

ZeroSpec == [Prompt |-> "", ChoiceScores |-> Empty]
ZeroRagasSpec ==
    [Prompt |-> "", ChoiceScores |-> Empty, Schema |-> "", Examples |-> <<>>]

\* yaml.Unmarshal into a ModelGradedSpec: keys that are no field are skipped
YAMLUnmarshal(content) ==
    IF ~content.mapping
    THEN [err |-> Errorf("yaml: unmarshal errors"), spec |-> ZeroSpec]
    ELSE [err |-> NoErr,
          spec |-> [Prompt |-> Field(content, "prompt", ""),
                    ChoiceScores |-> Field(content, "choice_scores", Empty)]]

\* yaml.Unmarshal into a RagasTemplateSpec
YAMLUnmarshalRagas(content) ==
    IF ~content.mapping
    THEN [err |-> Errorf("yaml: unmarshal errors"), spec |-> ZeroRagasSpec]
    ELSE [err |-> NoErr,
          spec |-> [Prompt |-> Field(content, "prompt", ""),
                    ChoiceScores |-> Field(content, "choice_scores", Empty),
                    Schema |-> Field(content, "schema", ""),
                    Examples |-> Field(content, "examples", <<>>)]]

\* m[name] = spec on a Go map
Store(m, name, spec) ==
    [n \in DOMAIN m \cup {name} |-> IF n = name THEN spec ELSE m[n]]

\* faulty variants: the spec is stored before it is looked at; the
\* label-score map is not looked at
LoadTemplateStoresFirst(m, name, content) ==
    LET u == YAMLUnmarshal(content)
        stored == Store(m, name, u.spec)
    IN  IF u.err # NoErr
        THEN [templates |-> m,
              err |-> Wrap("failed to unmarshal template " \o name, u.err)]
        ELSE IF u.spec.Prompt = ""
        THEN [templates |-> stored,
              err |-> Errorf("template " \o name \o ": prompt is required")]
        ELSE IF Cardinality(DOMAIN u.spec.ChoiceScores) = 0
        THEN [templates |-> stored,
              err |-> Errorf("template " \o name
                        \o ": choice_scores is required and must not be empty")]
        ELSE [templates |-> stored, err |-> NoErr]

LoadTemplateAnyScores(m, name, content) ==
    LET u == YAMLUnmarshal(content)
    IN  IF u.err # NoErr
        THEN [templates |-> m,
              err |-> Wrap("failed to unmarshal template " \o name, u.err)]
        ELSE IF u.spec.Prompt = ""
        THEN [templates |-> m,
              err |-> Errorf("template " \o name \o ": prompt is required")]
        ELSE [templates |-> Store(m, name, u.spec), err |-> NoErr]

LoadTemplate(m, name, content) ==
    LET u == YAMLUnmarshal(content)
    IN  IF u.err # NoErr
        THEN [templates |-> m,
              err |-> Wrap("failed to unmarshal template " \o name, u.err)]
        ELSE IF u.spec.Prompt = ""
        THEN [templates |-> m,
              err |-> Errorf("template " \o name \o ": prompt is required")]
        ELSE IF Cardinality(DOMAIN u.spec.ChoiceScores) = 0
        THEN [templates |-> m,
              err |-> Errorf("template " \o name
                        \o ": choice_scores is required and must not be empty")]
        ELSE [templates |-> Store(m, name, u.spec), err |-> NoErr]

GetTemplate(m, name) ==
    IF name \in DOMAIN m
    THEN [spec |-> m[name], err |-> NoErr]
    ELSE [spec |-> ZeroSpec, err |-> Errorf("template " \o name \o " not found")]

\* the names in the order the Go map yields them, which is not fixed
ListTemplates(m) == KeyOrders(m)

ValidateSpec(spec) ==
    IF spec.Prompt = "" THEN Errorf("prompt is required")
    ELSE IF Cardinality(DOMAIN spec.ChoiceScores) = 0
    THEN Errorf("choice_scores is required and must not be empty")
    ELSE NoErr

ValidateRagasSpec(spec) ==
    LET err == ValidateSpec([Prompt |-> spec.Prompt,
                             ChoiceScores |-> spec.ChoiceScores])
    IN  IF err # NoErr THEN err
        ELSE IF spec.Schema = ""
        THEN Errorf("schema is required for RAGAS templates")
        ELSE IF Len(spec.Examples) = 0
        THEN Errorf("at least one example is required for RAGAS templates")
        ELSE NoErr

LoadRagasTemplate(m, name, content) ==
    LET u == YAMLUnmarshalRagas(content)
    IN  IF u.err # NoErr
        THEN [templates |-> m,
              err |-> Wrap("failed to unmarshal RAGAS template " \o name, u.err)]
        ELSE IF ValidateRagasSpec(u.spec) # NoErr
        THEN [templates |-> m,
              err |-> Wrap("invalid RAGAS template " \o name,
                           ValidateRagasSpec(u.spec))]
        ELSE [templates |-> Store(m, name, u.spec), err |-> NoErr]

GetRagasTemplate(m, name) ==
    IF name \in DOMAIN m
    THEN [spec |-> m[name], err |-> NoErr]
    ELSE [spec |-> ZeroRagasSpec,
          err |-> Errorf("template " \o name \o " not found")]

\* NewManager and NewRagasManager, and no load made
TemplatesIdle ==
    /\ templates = Empty
    /\ ragasTemplates = Empty
    /\ loaded = [op |-> "none", name |-> "", content |-> NotYAML, err |-> NoErr]
    /\ loads = 0

---------------------------------------------------------------------------
(* The ProviderFactory.  A model spec is a string, kept as the sequence of *)
(* its pieces: a piece is a colon or a run of other characters             *)

DefaultMaxTokens == 4096

Pieces == {":", "openai", "gemini", "text-embedding-ada-002", "custom-model"}
ModelSpecs == UNION {[1..n -> Pieces] : n \in 0..MaxSpecLen}
APIKeys == {"", "test-key"}

\* the string the pieces spell
RECURSIVE Flat(_)
Flat(pieces) ==
    IF pieces = <<>> THEN "" ELSE Head(pieces) \o Flat(Tail(pieces))

RECURSIVE SplitFrom(_, _)
SplitFrom(pieces, parts) ==
    IF pieces = <<>> THEN parts
    ELSE IF Head(pieces) = ":"
    THEN SplitFrom(Tail(pieces), Append(parts, ""))
    ELSE SplitFrom(Tail(pieces),
                   [parts EXCEPT ![Len(parts)] = @ \o Head(pieces)])

\* strings.Split(modelSpec, ":")
Split(modelSpec) == SplitFrom(modelSpec, <<"">>)

NewProviderFactory(openAIKey, geminiKey) ==
    [openAIKey |-> openAIKey,
     geminiKey |-> geminiKey,
     modelSpecs |->
        ("openai:gpt-3.5-turbo-instruct" :>
            [Name |-> "gpt-3.5-turbo-instruct", MaxTokens |-> 4096,
             Type |-> ModelTypeText])
        @@ ("openai:gpt-4-turbo-preview" :>
            [Name |-> "gpt-4-turbo-preview", MaxTokens |-> 4096,
             Type |-> ModelTypeText])
        @@ ("openai:text-embedding-ada-002" :>
            [Name |-> "text-embedding-ada-002", MaxTokens |-> 8191,
             Type |-> ModelTypeEmbedding])
        @@ ("gemini:gemini-pro" :>
            [Name |-> "gemini-pro", MaxTokens |-> 4096, Type |-> ModelTypeText])
        @@ ("gemini:gemini-pro-vision" :>
            [Name |-> "gemini-pro-vision", MaxTokens |-> 4096,
             Type |-> ModelTypeText])
        @@ ("gemini:embedding-001" :>
            [Name |-> "embedding-001", MaxTokens |-> 2048,
             Type |-> ModelTypeEmbedding])]

NilProvider ==
    [kind |-> "nil", model |-> [Name |-> "", MaxTokens |-> 0, Type |-> 0]]

NewOpenAIProvider(apiKey, model) ==
    [provider |-> [kind |-> "OpenAI", model |-> model], err |-> NoErr]

\* genai.NewClient is taken to succeed: the factory calls it with a key that
\* is not empty, as the factory's tests do with a made-up key
NewGeminiProvider(apiKey, model) ==
    [provider |-> [kind |-> "Gemini", model |-> model], err |-> NoErr]

\* faulty variant: the API keys are not looked at
CreateProviderAnyKey(f, modelSpec) ==
    LET parts == Split(modelSpec)
    IN  IF Len(parts) # 2 \/ parts[1] \notin {"openai", "gemini"}
        THEN [provider |-> NilProvider,
              err |-> Errorf("unsupported provider: " \o Flat(modelSpec))]
        ELSE LET modelConfig ==
                    IF Flat(modelSpec) \in DOMAIN f.modelSpecs
                    THEN f.modelSpecs[Flat(modelSpec)]
                    ELSE [Name |-> parts[2], MaxTokens |-> DefaultMaxTokens,
                          Type |-> ModelTypeText]
             IN  IF parts[1] = "openai"
                 THEN NewOpenAIProvider(f.openAIKey, modelConfig)
                 ELSE NewGeminiProvider(f.geminiKey, modelConfig)

CreateProvider(f, modelSpec) ==
    LET parts == Split(modelSpec)
    IN  IF Len(parts) # 2
        THEN [provider |-> NilProvider,
              err |-> Errorf("invalid model spec format, expected provider:model, got "
                                \o Flat(modelSpec))]
        ELSE
        LET provider_ == parts[1]
            model == parts[2]
            exists == Flat(modelSpec) \in DOMAIN f.modelSpecs
            custom == [Name |-> model, MaxTokens |-> DefaultMaxTokens,
                       Type |-> ModelTypeText]
            modelConfig == IF exists THEN f.modelSpecs[Flat(modelSpec)] ELSE custom
        IN  IF ~exists /\ provider_ \notin {"openai", "gemini"}
            THEN [provider |-> NilProvider,
                  err |-> Errorf("unsupported provider: " \o provider_)]
            ELSE CASE provider_ = "openai" ->
                        IF f.openAIKey = ""
                        THEN [provider |-> NilProvider,
                              err |-> Errorf("OpenAI API key not provided")]
                        ELSE NewOpenAIProvider(f.openAIKey, modelConfig)
                   [] provider_ = "gemini" ->
                        IF f.geminiKey = ""
                        THEN [provider |-> NilProvider,
                              err |-> Errorf("Gemini API key not provided")]
                        ELSE NewGeminiProvider(f.geminiKey, modelConfig)
                   [] OTHER ->
                        [provider |-> NilProvider,
                         err |-> Errorf("unsupported provider: " \o provider_)]

NotCreated ==
    [called |-> FALSE, modelSpec |-> <<>>, provider |-> NilProvider,
     err |-> NoErr]

FactoryInit(keys) ==
    /\ factory \in {NewProviderFactory(o, g) : o \in keys, g \in keys}
    /\ created = NotCreated

FactoryIdle == FactoryInit({""})

---------------------------------------------------------------------------
(* The evaluation run of the command line: the loop over the input items   *)
(* and the writing of the results                                          *)

\* an item of the input file; its data is not read by the run
InputItem(template) == [Template |-> template, Data |-> Empty]

RECURSIVE ItemLists(_)
ItemLists(n) ==
    IF n = 0 THEN {<<>>}
    ELSE ItemLists(n - 1)
         \cup {Append(l, InputItem(t)) :
                  l \in {x \in ItemLists(n - 1) : Len(x) = n - 1},
                  t \in TemplateNames}

\* a template file the manager accepts
TemplateFile ==
    [mapping |-> TRUE,
     members |-> ("prompt" :> "p") @@ ("choice_scores" :> (<<"A">> :> 100))]

\* the manager after loadTemplates: of an empty directory, or of t1.yaml
loadTemplates ==
    {Empty, LoadTemplate(Empty, "t1", TemplateFile).templates}

\* what the provider does on one call: it selects a label of the template, it
\* selects a label that is none, or it fails
Selects(label) ==
    [response |->
        [Choices |-> <<ChoiceOf("", <<ToolCallOf("select_choice",
            [kind |-> "object",
             members |-> ("choice" :> JString(label))])>>)>>],
     err |-> NoErr]

ProviderAnswers ==
    {Selects(<<"A">>), Selects(<<"D">>),
     [response |-> [Choices |-> <<>>], err |-> Errorf("provider failure")]}

NotEvaluated == [found |-> FALSE, calls |-> 0, ret |-> NilScore(NoErr)]

\* one pass of the loop of runEvaluation over an item; answer is what the
\* provider does if it is called
\* faulty variant: a failed Classify adds a zero score
EvaluateItemKeepsFailed(manager, useCOT, scores, item, answer, choices) ==
    LET t == GetTemplate(manager, item.Template)
        r == Classify(NewClassifier(answer, "evaluate"), "background",
                      t.spec.Prompt, t.spec.ChoiceScores, useCOT, choices)
    IN  IF t.err # NoErr
        THEN [results |-> scores, entry |-> NotEvaluated]
        ELSE [results |-> Append(scores, r.ret.score),
              entry |-> [found |-> TRUE, calls |-> 1, ret |-> r.ret]]

EvaluateItem(manager, useCOT, scores, item, answer, choices) ==
    LET t == GetTemplate(manager, item.Template)
        r == Classify(NewClassifier(answer, "evaluate"), "background",
                      t.spec.Prompt, t.spec.ChoiceScores, useCOT, choices)
    IN  IF t.err # NoErr
        THEN [results |-> scores, entry |-> NotEvaluated]
        ELSE IF r.ret.err # NoErr
        THEN [results |-> scores,
              entry |-> [found |-> TRUE, calls |-> 1, ret |-> r.ret]]
        ELSE [results |-> Append(scores, r.ret.score),
              entry |-> [found |-> TRUE, calls |-> 1, ret |-> r.ret]]

\* writeResults, or the encoding to standard output: it fails or it writes
WriteResults(scores, ok) ==
    IF ok THEN [written |-> TRUE, output |-> scores, err |-> NoErr]
    ELSE [written |-> FALSE, output |-> <<>>,
          err |-> Wrap("failed to write results", Errorf("write failure"))]

NotFinished ==
    [done |-> FALSE, written |-> FALSE, output |-> <<>>, err |-> NoErr]

\* the run as it enters its loop
BatchInit(lists, managers) ==
    /\ batch \in {[items |-> l, manager |-> m, useCOT |-> u] :
                    l \in lists, m \in managers, u \in BOOLEAN}
    /\ pos = 1
    /\ results = <<>>
    /\ evaluated = <<>>
    /\ finished = NotFinished

BatchIdle == BatchInit({<<>>}, {Empty})

---------------------------------------------------------------------------
(* The JSONScorer.  A decoded JSON value is nil, a float64, a string, a    *)
(* slice or a map; floats are counted in millionths and a score in         *)
(* hundredths                                                              *)

Null == [t |-> "nil", v |-> 0]
Float64(n) == [t |-> "float64", v |-> n]
String(x) == [t |-> "string", v |-> x]
Array(a) == [t |-> "slice", v |-> a]
Object(m) == [t |-> "map", v |-> m]

Scalars == {Null, Float64(1000000), Float64(1005000), String("x")}
Arrays ==
    {Array(a) : a \in {<<>>, <<Float64(1005000)>>,
                        <<Float64(1000000), String("x")>>,
                        <<String("x"), Float64(1000000)>>}}
FieldValues ==
    {Float64(1000000), Float64(1005000), Object("a" :> Float64(1000000))}
Objects ==
    {Object(a @@ b) : a \in {Empty} \cup {"a" :> v : v \in FieldValues},
                      b \in {Empty} \cup {"b" :> v : v \in FieldValues}}
JSONValues == Scalars \cup Arrays \cup Objects

\* what Score is handed: a string that holds a JSON text or some other text,
\* or bytes that hold no JSON text
ScoreInputs ==
    {[kind |-> "string", valid |-> TRUE, raw |-> "json", value |-> v] :
        v \in JSONValues}
    \cup {[kind |-> "string", valid |-> FALSE, raw |-> "not json",
           value |-> Null],
          [kind |-> "bytes", valid |-> FALSE, raw |-> "not json",
           value |-> Null]}

DefaultFloatPrecision == 10
FloatPrecisions == {DefaultFloatPrecision, 10000}

NewJSONScorer ==
    [IgnoreArrayOrder |-> FALSE, IgnoreExtraFields |-> FALSE,
     IgnoreMissingFields |-> FALSE, FloatPrecision |-> DefaultFloatPrecision]

WithIgnoreArrayOrder(j, ignore) == [j EXCEPT !.IgnoreArrayOrder = ignore]
WithIgnoreExtraFields(j, ignore) == [j EXCEPT !.IgnoreExtraFields = ignore]
WithIgnoreMissingFields(j, ignore) == [j EXCEPT !.IgnoreMissingFields = ignore]
WithFloatPrecision(j, precision) == [j EXCEPT !.FloatPrecision = precision]

\* json.Unmarshal of a string or of bytes, and the string kept as it is when
\* it holds no JSON text
normalizeJSON(value) ==
    IF value.kind = "string"
    THEN IF value.valid THEN [value |-> value.value, err |-> NoErr]
         ELSE [value |-> String(value.raw), err |-> NoErr]
    ELSE IF ~value.valid
         THEN [value |-> Null,
               err |-> Wrap("invalid JSON bytes", Errorf("invalid character"))]
         ELSE [value |-> value.value, err |-> NoErr]

abs(x) == IF x < 0 THEN 0 - x ELSE x

compareFloats(j, output, expected) ==
    abs(output - expected) < j.FloatPrecision

\* the bytes json.Marshal gives for an element of a slice
Marshal(v) ==
    CASE v = Null -> <<110, 117, 108, 108>>
      [] v = Float64(1000000) -> <<49>>
      [] v = Float64(1005000) -> <<49, 46, 48, 48, 53>>
      [] v = String("x") -> <<34, 120, 34>>

\* the order of Go strings: byte by byte, a prefix first
RECURSIVE Less(_, _)
Less(a, b) ==
    IF Len(b) = 0 THEN FALSE
    ELSE IF Len(a) = 0 THEN TRUE
    ELSE IF a[1] # b[1] THEN a[1] < b[1]
    ELSE Less(Tail(a), Tail(b))

RECURSIVE Insert(_, _)
Insert(sorted, v) ==
    IF Len(sorted) = 0 THEN <<v>>
    ELSE IF Less(Marshal(v), Marshal(sorted[1])) THEN <<v>> \o sorted
    ELSE <<sorted[1]>> \o Insert(Tail(sorted), v)

RECURSIVE sortArray(_)
sortArray(arr) ==
    IF Len(arr) = 0 THEN <<>>
    ELSE Insert(sortArray(SubSeq(arr, 1, Len(arr) - 1)), arr[Len(arr)])

RECURSIVE compareValues(_, _, _)
RECURSIVE compareObjects(_, _, _)
RECURSIVE compareArrays(_, _, _)

compareObjects(j, output, expected) ==
    IF /\ ~j.IgnoreExtraFields
       /\ Cardinality(DOMAIN output) # Cardinality(DOMAIN expected)
    THEN FALSE
    ELSE IF \E key \in DOMAIN expected :
               IF key \notin DOMAIN output THEN ~j.IgnoreMissingFields
               ELSE ~compareValues(j, output[key], expected[key])
    THEN FALSE
    ELSE IF /\ ~j.IgnoreExtraFields
            /\ \E key \in DOMAIN output : key \notin DOMAIN expected
    THEN FALSE
    ELSE TRUE

compareArrays(j, output, expected) ==
    IF Len(output) # Len(expected) THEN FALSE
    ELSE LET o == IF j.IgnoreArrayOrder THEN sortArray(output) ELSE output
             x == IF j.IgnoreArrayOrder THEN sortArray(expected) ELSE expected
         IN  \A i \in DOMAIN x : compareValues(j, o[i], x[i])

compareValues(j, output, expected) ==
    IF output.t = "nil" \/ expected.t = "nil" THEN output.t = expected.t
    ELSE CASE expected.t = "map" ->
                IF output.t # "map" THEN FALSE
                ELSE compareObjects(j, output.v, expected.v)
           [] expected.t = "slice" ->
                IF output.t # "slice" THEN FALSE
                ELSE compareArrays(j, output.v, expected.v)
           [] expected.t = "float64" ->
                IF output.t # "float64" THEN FALSE
                ELSE compareFloats(j, output.v, expected.v)
           [] OTHER -> output = expected

boolToFloat(b) == IF b THEN 100 ELSE 0

ZeroScorerResult == [Name |-> "", Score |-> 0]

Score(j, output, expected) ==
    LET o == normalizeJSON(output)
        x == normalizeJSON(expected)
    IN  IF o.err # NoErr
        THEN [result |-> ZeroScorerResult,
              err |-> Wrap("failed to normalize output", o.err)]
        ELSE IF x.err # NoErr
        THEN [result |-> ZeroScorerResult,
              err |-> Wrap("failed to normalize expected", x.err)]
        ELSE [result |-> [Name |-> "JSONMatch",
                          Score |-> boolToFloat(compareValues(j, o.value,
                                                              x.value))],
              err |-> NoErr]

NotScored ==
    [called |-> FALSE, scorer |-> NewJSONScorer, result |-> ZeroScorerResult,
     err |-> NoErr]

\* a new scorer and the two values it will be handed
ScorerInit(inputs) ==
    /\ scorer = NewJSONScorer
    /\ scoreArgs \in {[output |-> o, expected |-> x] :
                        o \in inputs, x \in inputs}
    /\ scored = NotScored

ScorerIdle ==
    ScorerInit({[kind |-> "string", valid |-> TRUE, raw |-> "json",
                 value |-> Null]})

\* a Classify call that has not begun
IdleCall ==
    [pc |-> "idle", prompt |-> "", choiceScores |-> Empty, useCOT |-> FALSE,
     choices |-> <<>>, ret |-> NilScore(NoErr)]

GoroutinesIdle == goroutines = [p \in 1..NumGoroutines |-> IdleCall]

Init == ClassifierInit(Clients, {"background"}) /\ GoroutinesIdle /\ ProvidersIdle /\ TemplatesIdle
        /\ FactoryIdle /\ BatchIdle /\ ScorerIdle

EnumOf(request) == request.tools[1].Function.Parameters.properties["choice"].enum

CallClassify ==
    /\ classifyCalls < MaxCalls
    /\ \E prompt \in Prompts, choiceScores \in ChoiceScoreMaps, useCOT \in BOOLEAN :
         \E choices \in KeyOrders(choiceScores) :
            LET r == Classify(classifier, callerCtx, prompt, choiceScores,
                              useCOT, choices)
            IN  /\ args' = [prompt |-> prompt, choiceScores |-> choiceScores,
                            useCOT |-> useCOT]
                /\ ret' = r.ret
                /\ sent' = r.sent
                /\ prevChoices' = [i \in DOMAIN sent |-> EnumOf(sent[i])]
                /\ generateCalls' = generateCalls + Len(r.sent)
    /\ classifyCalls' = classifyCalls + 1
    /\ UNCHANGED <<classifier, callerCtx>>
    /\ UNCHANGED <<goroutineVars, providerVars, templateVars, factoryVars, batchVars, scorerVars>>

Next == CallClassify

Spec == Init /\ [][Next]_vars

\* the same calls made under a context that may be cancelled, on the clients
\* that fail and a few that answer
CtxClients ==
    {c \in Clients :
        \/ c.err # NoErr
        \/ Len(c.response.Choices) = 0
        \/ c.response.Choices[1].ToolCalls
             \in {<<>>, <<ToolCallOf("select_choice", ValidA)>>}}

InitCtx == ClassifierInit(CtxClients, Contexts) /\ GoroutinesIdle /\ ProvidersIdle /\ TemplatesIdle
        /\ FactoryIdle /\ BatchIdle /\ ScorerIdle

SpecCtx == InitCtx /\ [][Next]_vars

\* the same calls on clients whose first choice carries several tool calls:
\* after the first, any of a valid select_choice, a select_choice with
\* arguments that are no JSON, and a call of another tool
ManyToolCalls ==
    {ToolCallOf("select_choice", ValidA), ToolCallOf("select_choice", ValidEmpty),
     ToolCallOf("select_choice", [kind |-> "invalid", members |-> Empty]),
     ToolCallOf("other_tool", ValidA)}

ToolClients ==
    {[response |-> [Choices |-> <<ChoiceOf("", l)>>], err |-> NoErr] :
        l \in UNION {[1..n -> ManyToolCalls] : n \in 1..MaxToolCalls}}

InitTools ==
    ClassifierInit(ToolClients, {"background"}) /\ GoroutinesIdle
        /\ ProvidersIdle /\ TemplatesIdle /\ FactoryIdle /\ BatchIdle /\ ScorerIdle

SpecTools == InitTools /\ [][Next]_vars

---------------------------------------------------------------------------
(* Classify calls running concurrently on one Classifier.  A call runs to  *)
(* its call of Generate, waits there, and later runs from the return of    *)
(* Generate to its own return; all it works on is its arguments and locals *)

ConcurrentMaps ==
    {m \in ChoiceScoreMaps :
        \/ DOMAIN m = {<<"A">>}
        \/ (DOMAIN m = {<<>>} /\ m[<<>>] = 100)
        \/ (DOMAIN m = Labels /\ m[<<"A">>] = 100 /\ m[<<>>] = 0)}

BeginClassify(p) ==
    /\ goroutines[p].pc = "idle"
    /\ \E choiceScores \in ConcurrentMaps, useCOT \in BOOLEAN :
         \E choices \in KeyOrders(choiceScores) :
            goroutines' =
                [goroutines EXCEPT ![p] =
                    [pc |-> "called", prompt |-> "Test prompt",
                     choiceScores |-> choiceScores, useCOT |-> useCOT,
                     choices |-> choices, ret |-> NilScore(NoErr)]]
    /\ UNCHANGED <<classifierVars, providerVars, templateVars, factoryVars, batchVars, scorerVars>>

\* faulty variant: the map is kept in a place the calls share
ReturnClassifyShared(p) ==
    /\ goroutines[p].pc = "called"
    /\ \E q \in DOMAIN goroutines :
         /\ goroutines[q].pc # "idle"
         /\ goroutines' =
              [goroutines EXCEPT
                  ![p].pc = "done",
                  ![p].ret = ClassifyResult(classifier, Generate(classifier.client),
                                            goroutines[q].choiceScores)]
    /\ UNCHANGED <<classifierVars, providerVars, templateVars, factoryVars, batchVars, scorerVars>>

ReturnClassify(p) ==
    /\ goroutines[p].pc = "called"
    /\ goroutines' =
         [goroutines EXCEPT
             ![p].pc = "done",
             ![p].ret = ClassifyResult(classifier, Generate(classifier.client),
                                       goroutines[p].choiceScores)]
    /\ UNCHANGED <<classifierVars, providerVars, templateVars, factoryVars, batchVars, scorerVars>>

NextConcurrent ==
    \E p \in DOMAIN goroutines : BeginClassify(p) \/ ReturnClassify(p)

InitConcurrent ==
    ClassifierInit(CtxClients, {"background"}) /\ GoroutinesIdle /\ ProvidersIdle /\ TemplatesIdle
        /\ FactoryIdle /\ BatchIdle /\ ScorerIdle

SpecConcurrent == InitConcurrent /\ [][NextConcurrent]_vars

---------------------------------------------------------------------------
(* Operations on one provider *)

\* a Classifier nobody calls
ClassifierIdle ==
    ClassifierInit({[response |-> [Choices |-> <<>>], err |-> NoErr]},
                   {"background"})

ProviderStep(op, input, opts, out) ==
    /\ pcall' = [op |-> op, input |-> input, opts |-> opts]
    /\ pret' = out.ret
    /\ outbound' = out.outbound
    /\ providerCalls' = providerCalls + 1
    /\ UNCHANGED provider
    /\ UNCHANGED <<classifierVars, goroutineVars, templateVars, factoryVars, batchVars, scorerVars>>

CallGeminiGenerate ==
    /\ provider.kind = "Gemini"
    /\ providerCalls < MaxProviderCalls
    /\ \E messages \in Conversations, opts \in Options, sdk \in SDKOutcomes :
          ProviderStep("Gemini.Generate", messages, opts,
                       GeminiGenerate(provider, messages, opts, sdk))
    /\ UNCHANGED mock

CallGeminiEmbedding ==
    /\ provider.kind = "Gemini"
    /\ providerCalls < MaxProviderCalls
    /\ \E text \in Texts, sdk \in SDKOutcomes :
          ProviderStep("Gemini.Embedding", text, NoOptions,
                       GeminiEmbedding(provider, text, sdk))
    /\ UNCHANGED mock

CallOpenAIComplete ==
    /\ provider.kind = "OpenAI"
    /\ providerCalls < MaxProviderCalls
    /\ \E messages \in Conversations, opts \in Options, sdk \in SDKOutcomes :
          ProviderStep("OpenAI.Complete", messages, opts,
                       OpenAIComplete(provider, messages, opts, sdk))
    /\ UNCHANGED mock

CallOpenAIGenerate ==
    /\ provider.kind = "OpenAI"
    /\ providerCalls < MaxProviderCalls
    /\ \E prompt \in Texts, opts \in Options, sdk \in SDKOutcomes :
          ProviderStep("OpenAI.Generate", prompt, opts,
                       OpenAIGenerate(provider, prompt, opts, sdk))
    /\ UNCHANGED mock

CallOpenAIGenerateEmbedding ==
    /\ provider.kind = "OpenAI"
    /\ providerCalls < MaxProviderCalls
    /\ \E text \in Texts, sdk \in SDKOutcomes :
          ProviderStep("OpenAI.GenerateEmbedding", text, NoOptions,
                       OpenAIGenerateEmbedding(provider, text, sdk))
    /\ UNCHANGED mock

CallMockGenerate ==
    /\ provider.kind = "Mock"
    /\ providerCalls < MaxProviderCalls
    /\ \E prompt \in Texts, opts \in Options :
          LET out == MockGenerate(provider, mock, prompt)
          IN  /\ ProviderStep("Mock.Generate", prompt, opts, out)
              /\ mock' = out.calls

CallMockGenerateEmbedding ==
    /\ provider.kind = "Mock"
    /\ providerCalls < MaxProviderCalls
    /\ \E text \in Texts :
          LET out == MockGenerateEmbedding(provider, mock, text)
          IN  /\ ProviderStep("Mock.GenerateEmbedding", text, NoOptions, out)
              /\ mock' = out.calls

CallMockSetGenerateFunc ==
    /\ provider.kind = "Mock"
    /\ providerCalls < MaxProviderCalls
    /\ ProviderStep("Mock.SetGenerateFunc", "custom", NoOptions,
                    [ret |-> Returns(""), outbound |-> <<>>])
    /\ mock' = SetGenerateFunc(mock, "custom")

CallMockSetEmbeddingFunc ==
    /\ provider.kind = "Mock"
    /\ providerCalls < MaxProviderCalls
    /\ ProviderStep("Mock.SetEmbeddingFunc", "custom", NoOptions,
                    [ret |-> Returns(""), outbound |-> <<>>])
    /\ mock' = SetEmbeddingFunc(mock, "custom")

CallMockResetCalls ==
    /\ provider.kind = "Mock"
    /\ providerCalls < MaxProviderCalls
    /\ ProviderStep("Mock.ResetCalls", "", NoOptions,
                    [ret |-> Returns(""), outbound |-> <<>>])
    /\ mock' = ResetCalls(mock)

NextProviders ==
    \/ CallMockSetGenerateFunc
    \/ CallMockSetEmbeddingFunc
    \/ CallMockResetCalls
    \/ CallGeminiGenerate
    \/ CallGeminiEmbedding
    \/ CallOpenAIComplete
    \/ CallOpenAIGenerate
    \/ CallOpenAIGenerateEmbedding
    \/ CallMockGenerate
    \/ CallMockGenerateEmbedding

InitProviders ==
    ClassifierIdle /\ GoroutinesIdle /\ ProviderInit(Providers) /\ TemplatesIdle
        /\ FactoryIdle /\ BatchIdle /\ ScorerIdle

SpecProviders == InitProviders /\ [][NextProviders]_vars

---------------------------------------------------------------------------
(* Loads on one Manager and one RagasManager *)

CallLoadTemplate ==
    /\ loads < MaxLoads
    /\ \E name \in TemplateNames, content \in YAMLContents :
          LET out == LoadTemplate(templates, name, content)
          IN  /\ templates' = out.templates
              /\ loaded' = [op |-> "LoadTemplate", name |-> name,
                            content |-> content, err |-> out.err]
    /\ loads' = loads + 1
    /\ UNCHANGED ragasTemplates
    /\ UNCHANGED <<classifierVars, goroutineVars, providerVars, factoryVars, batchVars, scorerVars>>

CallLoadRagasTemplate ==
    /\ loads < MaxLoads
    /\ \E name \in TemplateNames, content \in YAMLContents :
          LET out == LoadRagasTemplate(ragasTemplates, name, content)
          IN  /\ ragasTemplates' = out.templates
              /\ loaded' = [op |-> "LoadRagasTemplate", name |-> name,
                            content |-> content, err |-> out.err]
    /\ loads' = loads + 1
    /\ UNCHANGED templates
    /\ UNCHANGED <<classifierVars, goroutineVars, providerVars, factoryVars, batchVars, scorerVars>>

NextTemplates == CallLoadTemplate \/ CallLoadRagasTemplate

InitTemplates ==
    ClassifierIdle /\ GoroutinesIdle /\ ProvidersIdle /\ TemplatesIdle
        /\ FactoryIdle /\ BatchIdle /\ ScorerIdle

SpecTemplates == InitTemplates /\ [][NextTemplates]_vars

---------------------------------------------------------------------------
(* CreateProvider calls on one ProviderFactory *)

CallCreateProvider ==
    /\ \E modelSpec \in ModelSpecs :
          LET out == CreateProvider(factory, modelSpec)
          IN  created' = [called |-> TRUE, modelSpec |-> modelSpec,
                          provider |-> out.provider, err |-> out.err]
    /\ UNCHANGED factory
    /\ UNCHANGED <<classifierVars, goroutineVars, providerVars, templateVars, batchVars, scorerVars>>

NextFactory == CallCreateProvider

InitFactory ==
    ClassifierIdle /\ GoroutinesIdle /\ ProvidersIdle /\ TemplatesIdle
        /\ FactoryInit(APIKeys) /\ BatchIdle /\ ScorerIdle

SpecFactory == InitFactory /\ [][NextFactory]_vars

---------------------------------------------------------------------------
(* The evaluation run: the loop visits the items in order, then the        *)
(* results are written                                                     *)

EvaluateNext ==
    /\ ~finished.done
    /\ pos <= Len(batch.items)
    /\ \E answer \in ProviderAnswers :
         LET t == GetTemplate(batch.manager, batch.items[pos].Template)
         IN  \E choices \in KeyOrders(t.spec.ChoiceScores) :
                LET e == EvaluateItem(batch.manager, batch.useCOT, results,
                                      batch.items[pos], answer, choices)
                IN  /\ results' = e.results
                    /\ evaluated' =
                         Append(evaluated,
                                [item |-> batch.items[pos], answer |-> answer,
                                 choices |-> choices] @@ e.entry)
    /\ pos' = pos + 1
    /\ UNCHANGED <<batch, finished>>
    /\ UNCHANGED <<classifierVars, goroutineVars, providerVars, templateVars,
                   factoryVars, scorerVars>>

FinishRun ==
    /\ ~finished.done
    /\ pos > Len(batch.items)
    /\ \E ok \in BOOLEAN :
         finished' = [done |-> TRUE] @@ WriteResults(results, ok)
    /\ UNCHANGED <<batch, pos, results, evaluated>>
    /\ UNCHANGED <<classifierVars, goroutineVars, providerVars, templateVars,
                   factoryVars, scorerVars>>

NextBatch == EvaluateNext \/ FinishRun

InitBatch ==
    /\ ClassifierIdle /\ GoroutinesIdle /\ ProvidersIdle /\ TemplatesIdle
    /\ FactoryIdle
    /\ BatchInit(ItemLists(MaxItems), loadTemplates)
    /\ ScorerIdle

SpecBatch == InitBatch /\ [][NextBatch]_vars

---------------------------------------------------------------------------
(* The JSONScorer: its options are set and it scores *)

ScorerStep ==
    UNCHANGED <<classifierVars, goroutineVars, providerVars, templateVars,
                factoryVars, batchVars>>

CallWithIgnoreArrayOrder ==
    /\ \E ignore \in BOOLEAN : scorer' = WithIgnoreArrayOrder(scorer, ignore)
    /\ UNCHANGED <<scoreArgs, scored>>
    /\ ScorerStep

CallWithIgnoreExtraFields ==
    /\ \E ignore \in BOOLEAN : scorer' = WithIgnoreExtraFields(scorer, ignore)
    /\ UNCHANGED <<scoreArgs, scored>>
    /\ ScorerStep

CallWithIgnoreMissingFields ==
    /\ \E ignore \in BOOLEAN :
         scorer' = WithIgnoreMissingFields(scorer, ignore)
    /\ UNCHANGED <<scoreArgs, scored>>
    /\ ScorerStep

CallWithFloatPrecision ==
    /\ \E precision \in FloatPrecisions :
         scorer' = WithFloatPrecision(scorer, precision)
    /\ UNCHANGED <<scoreArgs, scored>>
    /\ ScorerStep

CallScore ==
    /\ scored' = [called |-> TRUE, scorer |-> scorer]
                   @@ Score(scorer, scoreArgs.output, scoreArgs.expected)
    /\ UNCHANGED <<scorer, scoreArgs>>
    /\ ScorerStep

NextScorer ==
    \/ CallWithIgnoreArrayOrder
    \/ CallWithIgnoreExtraFields
    \/ CallWithIgnoreMissingFields
    \/ CallWithFloatPrecision
    \/ CallScore

InitScorer ==
    /\ ClassifierIdle /\ GoroutinesIdle /\ ProvidersIdle /\ TemplatesIdle
    /\ FactoryIdle /\ BatchIdle
    /\ ScorerInit(ScoreInputs)

SpecScorer == InitScorer /\ [][NextScorer]_vars

---------------------------------------------------------------------------
(* What the claims speak of *)

Called == classifyCalls > 0
Response == classifier.client.response
M == args.choiceScores

\* the generation succeeded and its first choice carries a tool call
HasToolCall ==
    /\ classifier.client.err = NoErr
    /\ Len(Response.Choices) > 0
    /\ Len(Response.Choices[1].ToolCalls) > 0

FirstCall == Response.Choices[1].ToolCalls[1].Function

\* the first tool call is select_choice with a JSON object holding a string choice
HasLabel ==
    /\ HasToolCall
    /\ FirstCall.Name = "select_choice"
    /\ FirstCall.Arguments.kind = "object"
    /\ "choice" \in DOMAIN FirstCall.Arguments.members
    /\ FirstCall.Arguments.members["choice"].t = "string"

RawLabel == FirstCall.Arguments.members["choice"].s

\* the label without its whitespace (no label here has inner whitespace)
Bare(s) == SelectSeq(s, LAMBDA ch : ch \notin Whitespace)

ErrorKind(err) == err.msgs[Len(err.msgs)]

\* C1: a select_choice call whose trimmed label is a key k of the map makes
\* Classify return a Score and no error, with Score = M[k] and
\* Metadata.choice = k, whether or not the label came with whitespace around it
C1_KnownLabelScores ==
    (Called /\ HasLabel /\ Bare(RawLabel) \in DOMAIN M)
        => /\ ~ret.nil
           /\ ret.err = NoErr
           /\ ret.score.Score = M[Bare(RawLabel)]
           /\ ret.score.Metadata["choice"] = JString(Bare(RawLabel))

C1_Witness ==
    /\ Called /\ HasLabel
    /\ RawLabel # Bare(RawLabel)
    /\ Bare(RawLabel) \in DOMAIN M
    /\ ~ret.nil

\* C2: a label that, trimmed, is not a key of the map of that call makes
\* Classify return the unknown-choice error and no Score
C2_UnknownLabelFails ==
    (Called /\ HasLabel /\ Bare(RawLabel) \notin DOMAIN M)
        => /\ ret.nil
           /\ ret.score = ZeroScore
           /\ ret.err # NoErr
           /\ ErrorKind(ret.err) = "unknown score choice"

C2_Witness ==
    /\ Called /\ HasLabel
    /\ RawLabel = <<"D">>
    /\ M # Empty
    /\ ret.nil

\* C3: a first choice without tool calls makes Classify fail with the
\* no-tool-call error and no Score, whatever the message content
C3_NoToolCallFails ==
    (Called /\ classifier.client.err = NoErr /\ Len(Response.Choices) > 0
        /\ Len(Response.Choices[1].ToolCalls) = 0)
        => /\ ret.nil
           /\ ret.err # NoErr
           /\ ErrorKind(ret.err) = "no tool calls in response"

C3_Witness ==
    /\ Called /\ classifier.client.err = NoErr /\ Len(Response.Choices) > 0
    /\ Len(Response.Choices[1].ToolCalls) = 0
    /\ Response.Choices[1].Message.Content # ""
    /\ <<"A">> \in DOMAIN M
    /\ ret.nil

\* C4: Classify returns either a Score and no error or no Score and an
\* error, and a returned Score's value is M[k] for a key k of the map
C4_ScoreOrError ==
    Called
        => /\ ret.nil <=> ret.err # NoErr
           /\ ret.nil => ret.score = ZeroScore
           /\ ~ret.nil => \E k \in DOMAIN M : ret.score.Score = M[k]

C4_Witness ==
    /\ Called /\ ~ret.nil
    /\ \E j, k \in DOMAIN M : M[j] # M[k]

\* C5: without reasoning, the returned metadata has no rationale key, even
\* when the arguments held a reasons field
C5_NoRationaleWithoutReasoning ==
    (Called /\ ~args.useCOT /\ ~ret.nil)
        => "rationale" \notin DOMAIN ret.score.Metadata

\* C6: with reasoning and a valid label, the metadata has a rationale key
\* exactly when the arguments have a reasons field, and its value is that
\* field as it came
C6_RationaleVerbatim ==
    (Called /\ args.useCOT /\ HasLabel /\ Bare(RawLabel) \in DOMAIN M)
        => /\ ~ret.nil
           /\ "rationale" \in DOMAIN ret.score.Metadata
                <=> "reasons" \in DOMAIN FirstCall.Arguments.members
           /\ "rationale" \in DOMAIN ret.score.Metadata
                => ret.score.Metadata["rationale"]
                     = FirstCall.Arguments.members["reasons"]

C6_Witness ==
    /\ Called /\ args.useCOT /\ HasLabel /\ ~ret.nil
    /\ "reasons" \in DOMAIN FirstCall.Arguments.members
    /\ ret.score.Metadata["rationale"] = JString(<<" ", "r", " ">>)

Range(f) == {f[i] : i \in DOMAIN f}

\* C7: the enum of the tool sent to the generator holds each key of the map
\* of that call once and nothing else, in every call
C7_EnumIsKeySet ==
    (Called /\ M # Empty)
        => \A i \in DOMAIN sent :
              /\ Range(EnumOf(sent[i])) = DOMAIN M
              /\ Len(EnumOf(sent[i])) = Cardinality(DOMAIN M)

C7_Witness ==
    /\ classifyCalls = 2
    /\ M # Empty
    /\ sent # <<>>
    /\ prevChoices # <<>>
    /\ prevChoices[1] # <<>>
    /\ Range(prevChoices[1]) # DOMAIN M
    /\ Range(EnumOf(sent[1])) = DOMAIN M

\* C8: one tool named select_choice is sent; with reasoning its schema has
\* the properties reasons and choice, both required, without reasoning the
\* property choice alone, required
C8_ToolShape ==
    \A i \in DOMAIN sent :
        LET tools == sent[i].tools
            schema == tools[1].Function.Parameters
        IN  /\ Len(tools) = 1
            /\ tools[1].Function.Name = "select_choice"
            /\ args.useCOT =>
                 /\ DOMAIN schema.properties = {"reasons", "choice"}
                 /\ schema.required = <<"reasons", "choice">>
            /\ ~args.useCOT =>
                 /\ DOMAIN schema.properties = {"choice"}
                 /\ schema.required = <<"choice">>

C8_Witness ==
    /\ Called /\ sent # <<>> /\ ~args.useCOT
    /\ DOMAIN sent[1].tools[1].Function.Parameters.properties = {"choice"}
    /\ Len(EnumOf(sent[1])) = 2

\* C9: an empty map or an empty prompt makes Classify fail without a call
\* to the generator
C9_InvalidInputRejected ==
    (Called /\ (args.prompt = "" \/ M = Empty))
        => /\ ret.nil
           /\ ret.err # NoErr
           /\ sent = <<>>

\* C10: a Classify call with a prompt and a non-empty map invokes Generate
\* once, whatever comes back
C10_OneGeneratePerCall ==
    [][(classifyCalls' = classifyCalls + 1 /\ args'.prompt # ""
            /\ args'.choiceScores # Empty)
        => /\ generateCalls' = generateCalls + 1
           /\ Len(sent') = 1]_vars

C10_Witness ==
    /\ classifyCalls = 2 /\ generateCalls = 2
    /\ args.prompt # "" /\ M # Empty
    /\ ret.nil
    /\ ErrorKind(ret.err) \in {"provider failure", "empty response from model",
                               "json: invalid character"}

\* errors.Is along the chain that %w builds
Is(err, target) == \E i \in DOMAIN err.msgs : err.msgs[i] = target

CancelCauses == {"context canceled", "context deadline exceeded"}

\* C13: Generate receives the caller's context as it is, and when Generate
\* fails with a cancellation or a deadline, Classify returns no Score and an
\* error that still is that cause
C13_ContextAndCancellation ==
    Called
        => /\ \A i \in DOMAIN sent : sent[i].ctx = callerCtx
           /\ \A cause \in CancelCauses :
                 classifier.client.err = Errorf(cause)
                    => /\ ret.nil
                       /\ Is(ret.err, cause)
                       /\ ErrorKind(ret.err) = cause

C13_Witness ==
    /\ Called
    /\ callerCtx = "canceled"
    /\ classifier.client.err = Errorf("context canceled")
    /\ sent # <<>>
    /\ sent[1].ctx = "canceled"
    /\ ret.nil
    /\ Is(ret.err, "context canceled")

\* C14: a Score that Classify returns bears the name given to NewClassifier,
\* and its metadata has the key choice and no key but choice and rationale
C14_ResultShape ==
    (Called /\ ~ret.nil)
        => /\ ret.score.Name = classifier.name
           /\ "choice" \in DOMAIN ret.score.Metadata
           /\ DOMAIN ret.score.Metadata \subseteq {"choice", "rationale"}

C14_Witness ==
    /\ Called /\ ~ret.nil
    /\ ret.score.Name = "test"
    /\ DOMAIN ret.score.Metadata = {"choice", "rationale"}

\* C18: Generate receives one message, of role user, whose content is the
\* prompt, a newline and the suffix of the reasoning flag, with tools built
\* for the same flag
C18_SingleUserMessage ==
    \A i \in DOMAIN sent :
        LET schema == sent[i].tools[1].Function.Parameters
        IN  /\ Len(sent[i].messages) = 1
            /\ sent[i].messages[1].Role = "user"
            /\ sent[i].messages[1].Content
                 = args.prompt \o "\n"
                   \o (IF args.useCOT THEN COTSuffix ELSE NoCOTSuffix)
            /\ schema.title
                 = (IF args.useCOT THEN "CoTResponse" ELSE "FunctionResponse")
            /\ "reasons" \in DOMAIN schema.properties <=> args.useCOT

C18_Witness ==
    /\ Called /\ sent # <<>>
    /\ args.useCOT
    /\ args.prompt = "Test prompt"
    /\ sent[1].messages[1].Content = "Test prompt" \o "\n" \o COTSuffix
    /\ sent[1].tools[1].Function.Parameters.title = "CoTResponse"

\* the text of a label, and the labels listed in the order of the enum
RECURSIVE Str(_)
Str(s) == IF s = <<>> THEN "" ELSE Head(s) \o Str(Tail(s))

RECURSIVE Listing(_)
Listing(enum) ==
    IF enum = <<>> THEN ""
    ELSE IF Len(enum) = 1 THEN Str(enum[1])
         ELSE Str(enum[1]) \o ", " \o Listing(Tail(enum))

\* the suffixes up to their {{.Choices}} placeholder
NoCOTHead == "Answer the question by calling 'select_choice' with a single choice from "
COTHead == "Answer the question by calling 'select_choice' with your reasoning in a step-by-step manner to be sure that your conclusion is correct. Avoid simply stating the correct answer at the outset. Select a single choice by setting the 'choice' parameter to a single choice from "

\* C19: the instruction sent to the model lists, where the suffix names the
\* choices, the labels of the map in the order of the enum of the same call
C19_LabelsInInstruction ==
    (Called /\ M # Empty)
        => \A i \in DOMAIN sent :
              sent[i].messages[1].Content
                = args.prompt \o "\n"
                  \o (IF args.useCOT THEN COTHead ELSE NoCOTHead)
                  \o Listing(EnumOf(sent[i])) \o "."

\* C20: a Classify call with the arguments of the call before it sends the
\* generator the same messages and the same tools
C20_SameCallSameRequest ==
    [][(Called /\ classifyCalls' = classifyCalls + 1 /\ args' = args)
        => sent' = sent]_vars

\* C15: no step of a Classify call changes the Classifier or the map the
\* caller gave, and however concurrent calls interleave, each returns what
\* the same call returns when it runs alone
C15_ConcurrentCallsIndependent ==
    /\ [][/\ classifier' = classifier
          /\ \A p \in DOMAIN goroutines :
                goroutines[p].pc # "idle"
                    => goroutines'[p].choiceScores = goroutines[p].choiceScores]_vars
    /\ [](\A p \in DOMAIN goroutines :
            goroutines[p].pc = "done"
                => goroutines[p].ret
                     = Classify(classifier, callerCtx, goroutines[p].prompt,
                                goroutines[p].choiceScores, goroutines[p].useCOT,
                                goroutines[p].choices).ret)

C15_Witness ==
    /\ goroutines[1].pc = "done"
    /\ goroutines[2].pc = "done"
    /\ ~goroutines[1].ret.nil
    /\ goroutines[2].ret.nil
    /\ goroutines[1].choiceScores # goroutines[2].choiceScores

GenerateOps ==
    {"Gemini.Generate", "OpenAI.Complete", "OpenAI.Generate", "Mock.Generate"}
EmbeddingOps ==
    {"Gemini.Embedding", "OpenAI.GenerateEmbedding", "Mock.GenerateEmbedding"}

\* C11: a generate call on a provider whose model lacks the text bit returns
\* an error, makes no call to what lies under the provider and leaves the
\* mock's record of calls as it was; the same for an embedding call on a
\* model lacking the embedding bit
C11_CapabilityChecked ==
    [][(providerCalls' = providerCalls + 1
        /\ \/ (pcall'.op \in GenerateOps
                /\ BitAnd(provider.model.Type, ModelTypeText) = 0)
           \/ (pcall'.op \in EmbeddingOps
                /\ BitAnd(provider.model.Type, ModelTypeEmbedding) = 0))
          => /\ pret'.err # NoErr
             /\ outbound' = <<>>
             /\ mock' = mock]_vars

C11_Witness ==
    /\ provider.kind = "Mock"
    /\ provider.model.Type = ModelTypeEmbedding
    /\ providerCalls = 2
    /\ pcall.op = "Mock.Generate"
    /\ pcall.input = "hi"
    /\ pret.err = Errorf("model does not support text generation")
    /\ mock.generateCalls = <<>>
    /\ Len(mock.embeddingCalls) = 1

\* C12: a generate call of the Gemini or of the OpenAI provider with a
\* conversation of zero messages returns an error and makes no call to the
\* client under the provider
C12_EmptyConversationRejected ==
    (pcall.op \in {"Gemini.Generate", "OpenAI.Complete"} /\ Len(pcall.input) = 0)
        => (pret.err # NoErr /\ outbound = <<>>)

\* the document gives the key a value other than the empty one
Gives(content, key, empty) ==
    /\ content.mapping
    /\ key \in DOMAIN content.members
    /\ content.members[key] # empty

\* C16: every template GetTemplate returns has a prompt and at least one
\* label in choice_scores, every template GetRagasTemplate returns has
\* besides a schema and at least one example, and a load whose content
\* lacks one of them returns an error
C16_StoredTemplatesValid ==
    /\ \A name \in TemplateNames :
          GetTemplate(templates, name).err = NoErr
            => /\ GetTemplate(templates, name).spec.Prompt # ""
               /\ DOMAIN GetTemplate(templates, name).spec.ChoiceScores # {}
    /\ \A name \in TemplateNames :
          GetRagasTemplate(ragasTemplates, name).err = NoErr
            => /\ GetRagasTemplate(ragasTemplates, name).spec.Prompt # ""
               /\ DOMAIN GetRagasTemplate(ragasTemplates, name).spec.ChoiceScores # {}
               /\ GetRagasTemplate(ragasTemplates, name).spec.Schema # ""
               /\ Len(GetRagasTemplate(ragasTemplates, name).spec.Examples) >= 1
    /\ (loaded.op \in {"LoadTemplate", "LoadRagasTemplate"}
          /\ ~(Gives(loaded.content, "prompt", "")
                /\ Gives(loaded.content, "choice_scores", Empty)))
         => loaded.err # NoErr
    /\ (loaded.op = "LoadRagasTemplate"
          /\ ~(Gives(loaded.content, "schema", "")
                /\ Gives(loaded.content, "examples", <<>>)))
         => loaded.err # NoErr

C16_Witness ==
    /\ loads = 2
    /\ GetTemplate(templates, "t1").err = NoErr
    /\ GetRagasTemplate(ragasTemplates, "t1").err # NoErr
    /\ loaded.op = "LoadRagasTemplate"
    /\ loaded.name = "t1"
    /\ Gives(loaded.content, "prompt", "")
    /\ Gives(loaded.content, "choice_scores", Empty)
    /\ Gives(loaded.content, "schema", "")
    /\ "examples" \notin DOMAIN loaded.content.members
    /\ loaded.err # NoErr

\* what a model spec spells before its first colon, and after it
RECURSIVE Before(_)
Before(pieces) ==
    IF pieces = <<>> \/ Head(pieces) = ":" THEN ""
    ELSE Head(pieces) \o Before(Tail(pieces))

RECURSIVE After(_)
After(pieces) ==
    IF pieces = <<>> THEN ""
    ELSE IF Head(pieces) = ":" THEN Flat(Tail(pieces))
    ELSE After(Tail(pieces))

Colons(pieces) == Cardinality({i \in DOMAIN pieces : pieces[i] = ":"})

KeyOf(name) ==
    IF name = "openai" THEN factory.openAIKey ELSE factory.geminiKey

StageOf(msg) ==
    CASE msg = "failed to complete" -> "generation"
      [] msg = "failed to parse response" -> "parsing"
      [] OTHER -> "none"

StageTags(err) == {StageOf(err.msgs[i]) : i \in DOMAIN err.msgs} \ {"none"}

\* C21: an error Classify returns names exactly one stage: generation when
\* Generate failed, parsing when the tool call is missing, unexpected or has
\* bad arguments, mapping when a well-formed label is no key of the map
C21_ErrorStageTagged ==
    (Called /\ ret.err # NoErr)
        => /\ Cardinality(StageTags(ret.err)) = 1
           /\ classifier.client.err # NoErr => StageTags(ret.err) = {"generation"}
           /\ (classifier.client.err = NoErr /\ Len(Response.Choices) > 0 /\ ~HasLabel)
                => StageTags(ret.err) = {"parsing"}
           /\ (HasLabel /\ Bare(RawLabel) \notin DOMAIN M)
                => StageTags(ret.err) = {"mapping"}

\* the client's answer cut down to the first tool call of its first choice
FirstToolCallOnly ==
    [response |->
        [Choices |-> <<[Response.Choices[1] EXCEPT
                            !.ToolCalls = <<Response.Choices[1].ToolCalls[1]>>]>>],
     err |-> NoErr]

\* C22: when the first tool call is not select_choice, Classify fails with
\* the unexpected-tool error whatever tool calls follow; in every case what
\* Classify returns is what it returns on the first tool call alone
C22_FirstToolCallOnly ==
    (Called /\ HasToolCall)
        => /\ FirstCall.Name # "select_choice"
                => /\ ret.nil
                   /\ ErrorKind(ret.err) = "unexpected tool call"
           /\ ret = ClassifyResult(classifier, FirstToolCallOnly, M)

C22_Witness ==
    /\ Called /\ HasToolCall
    /\ Len(Response.Choices[1].ToolCalls) = 2
    /\ FirstCall.Name = "other_tool"
    /\ Response.Choices[1].ToolCalls[2] = ToolCallOf("select_choice", ValidEmpty)
    /\ <<>> \in DOMAIN M
    /\ ret.nil

\* C23: when the arguments of the first select_choice tool call do not
\* deserialize (text that is no JSON, JSON of another kind than an object),
\* Classify returns the malformed-arguments error and no Score, whatever the map
C23_MalformedArgumentsFail ==
    (Called /\ HasToolCall /\ FirstCall.Name = "select_choice"
        /\ FirstCall.Arguments.kind \in {"invalid", "array"})
        => /\ ret.nil
           /\ ret.score = ZeroScore
           /\ ret.err # NoErr
           /\ ret.err.msgs[2] = "failed to parse arguments"

C23_Witness ==
    /\ Called /\ HasToolCall /\ FirstCall.Name = "select_choice"
    /\ FirstCall.Arguments.kind = "array"
    /\ <<>> \in DOMAIN M
    /\ <<"A">> \in DOMAIN M
    /\ ret.nil

\* C24: when the arguments deserialize but hold no choice, or a choice that
\* is no string, Classify returns the missing-choice error and no Score, also
\* when they hold reasons and the map has the empty label
C24_MissingChoiceFails ==
    (Called /\ HasToolCall /\ FirstCall.Name = "select_choice"
        /\ FirstCall.Arguments.kind \in {"object", "null"}
        /\ ~HasLabel)
        => /\ ret.nil
           /\ ret.score = ZeroScore
           /\ ret.err # NoErr
           /\ ErrorKind(ret.err) = "choice not found in response"

C24_Witness ==
    /\ Called /\ HasToolCall /\ FirstCall.Name = "select_choice"
    /\ FirstCall.Arguments.kind = "object"
    /\ DOMAIN FirstCall.Arguments.members = {"reasons"}
    /\ <<>> \in DOMAIN M
    /\ ret.nil

\* C28: when Generate succeeds with a Response of zero choices, Classify
\* returns no Score and the empty-response error, which no parsing produced
C28_EmptyResponseFails ==
    (Called /\ classifier.client.err = NoErr /\ Len(Response.Choices) = 0)
        => /\ ret.nil
           /\ ret.score = ZeroScore
           /\ ret.err = Errorf("empty response from model")
           /\ "parsing" \notin StageTags(ret.err)

C28_Witness ==
    /\ Called /\ classifier.client.err = NoErr /\ Len(Response.Choices) = 0
    /\ M # Empty
    /\ ret.nil
    /\ ret.err # NoErr

\* C25: the request a generate call sends carries a temperature exactly when
\* the caller gave one, and a maximum of tokens exactly when the caller gave
\* one, each with the value given
C25_OnlyGivenOptionsSent ==
    (pcall.op \in {"Gemini.Generate", "OpenAI.Complete"} /\ outbound # <<>>)
        => /\ outbound[1].temperature = pcall.opts.Temperature
           /\ outbound[1].maxTokens = pcall.opts.MaxTokens

\* C30: a Generate call of the MockProvider that passes the capability check
\* appends its prompt to what GetGenerateCalls returns, whatever the generate
\* function returns, and a rejected one appends nothing; the same for
\* GenerateEmbedding and GetEmbeddingCalls; ResetCalls empties both, and
\* nothing else changes either
C30_MockLogsCalls ==
    [][(providerCalls' = providerCalls + 1 /\ provider.kind = "Mock")
        => /\ GetGenerateCalls(mock')
                = (CASE pcall'.op = "Mock.ResetCalls" -> <<>>
                     [] pcall'.op = "Mock.Generate"
                            /\ BitAnd(provider.model.Type, ModelTypeText) # 0 ->
                          Append(GetGenerateCalls(mock), pcall'.input)
                     [] OTHER -> GetGenerateCalls(mock))
           /\ GetEmbeddingCalls(mock')
                = (CASE pcall'.op = "Mock.ResetCalls" -> <<>>
                     [] pcall'.op = "Mock.GenerateEmbedding"
                            /\ BitAnd(provider.model.Type, ModelTypeEmbedding) # 0 ->
                          Append(GetEmbeddingCalls(mock), pcall'.input)
                     [] OTHER -> GetEmbeddingCalls(mock))]_vars

C30_Witness ==
    /\ provider.kind = "Mock"
    /\ provider.model.Type = ModelTypeText
    /\ providerCalls = 3
    /\ pcall.op = "Mock.Generate"
    /\ pcall.input = ""
    /\ pret.err = Errorf("empty prompt")
    /\ GetGenerateCalls(mock) = <<"hi", "">>
    /\ GetEmbeddingCalls(mock) = <<>>

\* the names ListTemplates returns, in whatever order
ListedNames(m) == {Range(o) : o \in ListTemplates(m)}

\* C26: a LoadTemplate that returns an error changes nothing ListTemplates
\* and GetTemplate return; one that returns none makes GetTemplate of its
\* name return the spec of its content and changes nothing for other names;
\* before any load GetTemplate of every name is an error
C26_FailedLoadChangesNothing ==
    /\ [](loads = 0
            => \A name \in TemplateNames : GetTemplate(templates, name).err # NoErr)
    /\ [][(loads' = loads + 1 /\ loaded'.op = "LoadTemplate")
            => IF loaded'.err # NoErr
               THEN /\ ListedNames(templates') = ListedNames(templates)
                    /\ \A name \in TemplateNames :
                          GetTemplate(templates', name) = GetTemplate(templates, name)
               ELSE /\ GetTemplate(templates', loaded'.name)
                          = [spec |-> [Prompt |-> loaded'.content.members["prompt"],
                                       ChoiceScores |->
                                          loaded'.content.members["choice_scores"]],
                             err |-> NoErr]
                    /\ ListedNames(templates')
                          = {n \cup {loaded'.name} : n \in ListedNames(templates)}
                    /\ \A name \in TemplateNames \ {loaded'.name} :
                          GetTemplate(templates', name) = GetTemplate(templates, name)]_vars

C26_Witness ==
    /\ loads = 2
    /\ loaded.op = "LoadTemplate"
    /\ loaded.name = "t1"
    /\ loaded.err # NoErr
    /\ Gives(loaded.content, "prompt", "")
    /\ loaded.content.members["prompt"] = "q"
    /\ GetTemplate(templates, "t1").err = NoErr
    /\ GetTemplate(templates, "t1").spec.Prompt = "p"
    /\ GetTemplate(templates, "t2").err # NoErr
    /\ ListedNames(templates) = {{"t1"}}

---------------------------------------------------------------------------
(* The evaluation run *)

\* what Classify returns for an item of the log, computed on its own
Alone(e) ==
    Classify(NewClassifier(e.answer, "evaluate"), "background",
             batch.manager[e.item.Template].Prompt,
             batch.manager[e.item.Template].ChoiceScores,
             batch.useCOT, e.choices).ret

\* the item's template exists and its Classify succeeds
Scored(e) ==
    /\ e.item.Template \in DOMAIN batch.manager
    /\ Alone(e).err = NoErr

RECURSIVE ScoresOf(_)
ScoresOf(log) ==
    IF Len(log) = 0 THEN <<>>
    ELSE LET e == log[Len(log)]
             before == ScoresOf(SubSeq(log, 1, Len(log) - 1))
         IN  IF Scored(e) THEN Append(before, Alone(e).score) ELSE before

\* C27: in a run over a list of items, the results hold one Score for each
\* item visited whose template exists and whose Classify succeeded, in the
\* order of the input; an item whose template is missing or whose Classify
\* failed adds nothing, does not end the run and leaves the scores of the
\* other items as they were; one Classify call is made per item whose template
\* exists and none for the others; the run ends only after every item was
\* visited
C27_BatchSkipsFailures ==
    /\ [](/\ Len(evaluated) = pos - 1
          /\ \A i \in DOMAIN evaluated :
                /\ evaluated[i].item = batch.items[i]
                /\ evaluated[i].calls =
                     IF batch.items[i].Template \in DOMAIN batch.manager
                     THEN 1 ELSE 0
          /\ results = ScoresOf(evaluated)
          /\ finished.done => /\ Len(evaluated) = Len(batch.items)
                              /\ finished.written => finished.output = results)
    /\ [][/\ Len(results) <= Len(results')
          /\ SubSeq(results', 1, Len(results)) = results]_vars

\* a run of two items ended: the first item's Classify failed and the second item's score is the only result
C27_Witness ==
    /\ finished.done /\ finished.written
    /\ Len(batch.items) = 2
    /\ Len(evaluated) = 2
    /\ evaluated[1].calls = 1
    /\ evaluated[1].ret.err # NoErr
    /\ evaluated[2].ret.err = NoErr /\ evaluated[2].calls = 1
    /\ Len(finished.output) = 1
    /\ finished.output[1].Score = 100

---------------------------------------------------------------------------
(* The JSONScorer *)

\* the latest Score call compared two objects; these are they
OutputObject == normalizeJSON(scoreArgs.output).value.v
ExpectedObject == normalizeJSON(scoreArgs.expected).value.v

ComparedObjects ==
    /\ scored.called /\ scored.err = NoErr
    /\ normalizeJSON(scoreArgs.output).value.t = "map"
    /\ normalizeJSON(scoreArgs.expected).value.t = "map"

\* C29: a scorer with IgnoreMissingFields set and IgnoreExtraFields not set
\* scores 1 an output object that lacks some keys of the expected object, has
\* no key the expected object lacks, and holds under every key it has the
\* value the expected object holds
C29_MissingFieldsIgnored ==
    (/\ ComparedObjects
     /\ scored.scorer.IgnoreMissingFields
     /\ ~scored.scorer.IgnoreExtraFields
     /\ DOMAIN OutputObject \subseteq DOMAIN ExpectedObject
     /\ DOMAIN OutputObject # DOMAIN ExpectedObject
     /\ \A key \in DOMAIN OutputObject :
            OutputObject[key] = ExpectedObject[key])
    => scored.result.Score = 100

====
